---- MODULE Spec2Model ----
(***************************************************************************)
(* HustleX client: the schedule store (hooks/useSchedules.js).             *)
(*                                                                         *)
(* React state (schedules, loading, error, stats, categories,              *)
(* isFetchingCategories) is modelled as variables.  The callbacks read     *)
(* `schedules`, `categories` and `isFetchingCategories` from the closure   *)
(* of the render that created them: `view` holds those rendered values,    *)
(* Render refreshes it, and a call copies view.schedules into its own      *)
(* closure.  Functional updates (setSchedules(prev => ...)) act on the     *)
(* live state.  Every await is a step boundary: a call runs up to its      *)
(* first request, a response step runs the backend's handling of the       *)
(* request and the continuation up to the next request or to the end.      *)
(*                                                                         *)
(* Time.  An instant is an integer count of units since a UTC midnight     *)
(* that starts a Sunday; a calendar date "YYYY-MM-DD" is a day number.     *)
(* tz is the local offset from UTC of the browser, in units.               *)
(***************************************************************************)
EXTENDS Integers, Sequences, FiniteSets, TLC

\* ---------------------------------------------------------------- bounds
MaxCalls == 2          \* calls that may be in flight together
MaxOps == 3            \* calls the caller makes in one run
UnitsPerDay == 2       \* resolution of an instant: units in one day
MaxEvents == 4         \* events a user of the skill form raises
MaxStatItems == 2      \* items of a schedule the server holds at page load
MaxStatSchedules == 2  \* schedules the server holds at page load

\* ------------------------------------------------------------- constants
Today == 6             \* the UTC day read from the wall clock
NoId == 0              \* an absent or empty identifier (falsy)
NoDate == 0 - 1        \* an absent date (falsy)
NoTime == 0 - 1        \* an absent "HH:MM" (falsy)

Slots == 1..MaxCalls
Dates == {5, 6, 7}     \* Friday, Saturday, Sunday
TZOffsets == {0 - 1, 0, 1}

\* ------------------------------------------------------------ date maths
\* new Date("YYYY-MM-DD"): a date-only string is UTC midnight of that day.
ParseDate(d) == d * UnitsPerDay

\* date.toISOString().split("T")[0]: the UTC calendar day of an instant.
ISODate(t) == t \div UnitsPerDay

\* The local calendar day of an instant in a browser at offset z.
LocalDay(t, z) == (t + z) \div UnitsPerDay

\* date.setHours(0, 0, 0, 0): local midnight of the instant's local day.
SetHoursZero(t, z) == (LocalDay(t, z) * UnitsPerDay) - z

\* const formattedDate = new Date(targetDate); formattedDate.setHours(0,0,0,0)
FormattedDate(targetDate, z) == SetHoursZero(ParseDate(targetDate), z)

\* date.getDay(): local day of the week, 0 = Sunday .. 6 = Saturday.
GetDay(t, z) == LocalDay(t, z) % 7

\* formattedDate.getDay() % 6 === 0 ? "Weekend" : "Weekday"
DayTypeOf(t, z) == IF GetDay(t, z) % 6 = 0 THEN "Weekend" ELSE "Weekday"

\* The weekday rule on a calendar date: Saturday and Sunday are the weekend.
IsWeekendDate(d) == (d % 7) \in {0, 6}

\* ---------------------------------------------------------------- records
Item(id, cat, prio, st, en, done) ==
    [_id |-> id, category |-> cat, priority |-> prio,
     startTime |-> st, endTime |-> en, completed |-> done]

Schedule(id, date, dayType, status, items) ==
    [_id |-> id, date |-> date, dayType |-> dayType, status |-> status,
     items |-> items]

\* Item payloads a caller submits (no identifier yet).
ItemPayloads ==
    { Item(NoId, "DSA", "High", 9, 10, TRUE),
      Item(NoId, "", "Low", NoTime, 10, FALSE) }

defaultStats ==
    [todayItems |-> 0, completionRate |-> <<0, 1>>, totalHours |-> 0,
     highPriorityTasks |-> 0, weeklyTrend |-> 0, completionTrend |-> 0,
     hoursChange |-> 0, priorityChange |-> 0, totalTasks |-> 0,
     currentStreak |-> 0, topCategory |-> "", categoryCount |-> 0]

defaultCategories ==
    <<"DSA", "System Design", "Development", "Learning", "Problem Solving",
      "Other">>

\* --------------------------------------------------------- sequence tools
\* Array.prototype.filter
FilterSeq(s, Keep(_)) == SelectSeq(s, Keep)

\* Array.prototype.map
MapSeq(s, F(_)) == [i \in 1..Len(s) |-> F(s[i])]

\* Array.prototype.reduce((acc, x) => acc + F(x), 0)
SumSeq(s, F(_)) ==
    LET acc[i \in 0..Len(s)] == IF i = 0 THEN 0 ELSE acc[i - 1] + F(s[i])
    IN acc[Len(s)]

RECURSIVE Flatten(_)
Flatten(ss) == IF ss = <<>> THEN <<>> ELSE Head(ss) \o Flatten(Tail(ss))

RECURSIVE Gcd(_, _)
Gcd(a, b) == IF b = 0 THEN a ELSE Gcd(b, a % b)

\* The rational n / d in lowest terms, as a pair.
Ratio(n, d) == LET g == Gcd(n, d) IN IF g = 0 THEN <<0, 1>> ELSE <<n \div g, d \div g>>

\* ------------------------------------------------------------ statistics
\* Every item of every schedule, schedules in order and items in order.
AllItems(scheduleData) == Flatten(MapSeq(scheduleData, LAMBDA s : s.items))

RECURSIVE InsertedKeys(_)
\* The distinct non-empty labels, in the order the loop first meets them.
InsertedKeys(items) ==
    IF items = <<>> THEN <<>>
    ELSE LET rest == InsertedKeys(SubSeq(items, 1, Len(items) - 1))
             c == items[Len(items)].category
         IN IF c = "" \/ (\E i \in 1..Len(rest) : rest[i] = c) THEN rest
            ELSE Append(rest, c)

\* The number a label spells when it is the canonical text of an array
\* index ("7"), and NotIndex otherwise.
NotIndex == 0 - 1

IndexValue(label) == IF label = "7" THEN 7 ELSE NotIndex

RECURSIVE Ascending(_)
\* Labels that spell an index, by the number they spell.
Ascending(labels) ==
    IF labels = <<>> THEN <<>>
    ELSE LET least == CHOOSE i \in 1..Len(labels) :
                         \A j \in 1..Len(labels) :
                            IndexValue(labels[i]) <= IndexValue(labels[j])
         IN <<labels[least]>>
            \o Ascending(SelectSeq(labels, LAMBDA l : l # labels[least]))

\* Object.entries(categories) lists the keys of the object in property
\* order: the keys that spell an array index first, in ascending order,
\* then the other keys in insertion order.
CategoryKeys(items) ==
    LET inserted == InsertedKeys(items)
    IN Ascending(SelectSeq(inserted, LAMBDA l : IndexValue(l) # NotIndex))
       \o SelectSeq(inserted, LAMBDA l : IndexValue(l) = NotIndex)

\* categories[label]: how many items carry the label.
CategoryCount(items, label) ==
    Cardinality({i \in 1..Len(items) : items[i].category = label})

\* Object.entries(categories).sort((a, b) => b[1] - a[1])[0]?.[0] || "":
\* the sort is stable, so the first label, in the order of the entries,
\* with the largest count.
TopCategory(items) ==
    LET keys == CategoryKeys(items)
        best == {i \in 1..Len(keys) :
                   \A j \in 1..Len(keys) :
                      CategoryCount(items, keys[j]) <= CategoryCount(items, keys[i])}
    IN IF keys = <<>> THEN ""
       ELSE keys[CHOOSE i \in best : \A j \in best : i <= j]

\* A calculateStats that leaves the rate a fraction of one:
\* completedItems / totalItems.
CalcStatsFraction(scheduleData) ==
    IF Len(scheduleData) = 0 THEN defaultStats
    ELSE
      LET items == AllItems(scheduleData)
          totalItems == SumSeq(scheduleData, LAMBDA s : Len(s.items))
          completedItems ==
              SumSeq(scheduleData,
                     LAMBDA s : Len(FilterSeq(s.items, LAMBDA i : i.completed)))
      IN [defaultStats EXCEPT
             !.completionRate = IF totalItems > 0
                                THEN Ratio(completedItems, totalItems)
                                ELSE <<0, 1>>,
             !.totalTasks = totalItems,
             !.topCategory = TopCategory(items),
             !.categoryCount = Len(CategoryKeys(items))]

\* calculateStats(scheduleData): the value it passes to setStats.
CalcStats(scheduleData) ==
    IF Len(scheduleData) = 0 THEN defaultStats
    ELSE
      LET items == AllItems(scheduleData)
          todaySchedules ==
              FilterSeq(scheduleData,
                        LAMBDA s : s.date # NoDate /\ ISODate(s.date) = Today)
          totalItems == SumSeq(scheduleData, LAMBDA s : Len(s.items))
          completedItems ==
              SumSeq(scheduleData,
                     LAMBDA s : Len(FilterSeq(s.items, LAMBDA i : i.completed)))
          hours(i) == IF i.startTime = NoTime \/ i.endTime = NoTime THEN 0
                      ELSE i.endTime - i.startTime
      IN [todayItems |-> SumSeq(todaySchedules, LAMBDA s : Len(s.items)),
          completionRate |->
              IF totalItems > 0 THEN Ratio(completedItems * 100, totalItems)
              ELSE <<0, 1>>,
          totalHours |-> SumSeq(scheduleData, LAMBDA s : SumSeq(s.items, hours)),
          highPriorityTasks |->
              SumSeq(scheduleData,
                     LAMBDA s : Len(FilterSeq(s.items,
                                              LAMBDA i : i.priority = "High"))),
          weeklyTrend |-> 0, completionTrend |-> 0, hoursChange |-> 0,
          priorityChange |-> 0,
          totalTasks |-> totalItems,
          currentStreak |-> 0,
          topCategory |-> TopCategory(items),
          categoryCount |-> Len(CategoryKeys(items))]

\* ------------------------------------------------------------------ state
VARIABLES
    schedules,             \* useState([]): the cached schedules, in order
    loading,               \* useState(true)
    error,                 \* useState(null)
    stats,                 \* useState(defaultStats)
    categories,            \* useState([])
    isFetchingCategories,  \* useState(false)
    isAuthenticated,       \* useAuth().isAuthenticated
    view,                  \* what the callbacks of the last render closed over
    tz,                    \* the browser's offset from UTC
    backend,               \* the schedules the server holds, in creation order
    nextSid,               \* the next schedule identifier the server assigns
    nextIid,               \* the next item identifier the server assigns
    calls,                 \* the calls in flight or just finished, by slot
    budget,                \* how many more calls the caller will make
    serial,                \* the caller makes each call alone, after a render
    form                   \* the skill form (AddSkillModal) of the page

storeVars == <<schedules, loading, error, stats, categories, isFetchingCategories>>
serverVars == <<backend, nextSid, nextIid>>
envVars == <<isAuthenticated, tz, serial, form>>
vars == <<schedules, loading, error, stats, categories, isFetchingCategories,
          isAuthenticated, view, tz, backend, nextSid, nextIid, calls, budget,
          serial, form>>

null == "<null>"

\* The state values a render hands to the callbacks it creates.
Rendered ==
    [schedules |-> schedules, categories |-> categories,
     isFetchingCategories |-> isFetchingCategories]

\* A slot holding no call.
\* pc: where the call stands; closure: the `schedules` its callback closed
\* over; sid, iid, date, target, hasItems, items, status, completed: its
\* arguments and locals; made, gone: the schedule it created, deleted;
\* reqs: requests it has issued; failed: a request of it failed, with
\* message msg; result:
\* "returned" or "raised"; ret: the value returned; before: schedules and
\* stats as they were when the call was made; response: the answer a
\* category request received.
Idle ==
    [pc |-> "idle", op |-> "none", closure |-> <<>>, sid |-> NoId,
     iid |-> NoId, date |-> NoDate, target |-> NoDate, hasItems |-> TRUE,
     items |-> <<>>, status |-> "", completed |-> FALSE,
     made |-> NoId, gone |-> NoId, reqs |-> 0, failed |-> FALSE,
     msg |-> "", result |-> "none", ret |-> <<>>, before |-> <<>>,
     response |-> [shape |-> "none", entries |-> <<>>]]

\* A call that has just been made through the callbacks of the last render.
Started(op) ==
    [Idle EXCEPT !.op = op, !.closure = view.schedules,
                 !.before = <<schedules, stats>>]

\* -------------------------------------------------------------- lookups
Ids(scheduleData) == {scheduleData[i]._id : i \in 1..Len(scheduleData)}

ItemIds(items) == {items[i]._id : i \in 1..Len(items)}

\* schedules.find((s) => new Date(s.date).toISOString().split("T")[0] === targetDate)
\* as the set of positions that match; find takes the first.
OnDate(scheduleData, targetDate) ==
    {i \in 1..Len(scheduleData) : ISODate(scheduleData[i].date) = targetDate}

FindOnDate(scheduleData, targetDate) ==
    LET hits == OnDate(scheduleData, targetDate)
    IN scheduleData[CHOOSE i \in hits : \A j \in hits : i <= j]

\* prev.map((schedule) => schedule._id === id ? updatedSchedule : schedule)
ReplaceById(scheduleData, id, updatedSchedule) ==
    MapSeq(scheduleData, LAMBDA s : IF s._id = id THEN updatedSchedule ELSE s)

\* schedules.filter((schedule) => schedule._id !== id)
RemoveById(scheduleData, id) == FilterSeq(scheduleData, LAMBDA s : s._id # id)

\* const itemCopy = { ...item }; delete itemCopy._id
\* and, in copySchedule, const { _id, ...itemWithoutId } = item
WithoutId(item) == [item EXCEPT !._id = NoId]

\* copySchedule: items: sourceSchedule.items.map(...), completed reset
CopiedItems(items) ==
    MapSeq(items, LAMBDA i : [WithoutId(i) EXCEPT !.completed = FALSE])

\* ---------------------------------------------------------------- backend
\* How many items of a body come without an identifier.
NumNew(items) == Cardinality({i \in 1..Len(items) : items[i]._id = NoId})

\* The server gives each item that comes without an identifier the next
\* free one, and keeps an identifier the body already carries.
AssignIds(items, next) ==
    [i \in 1..Len(items) |->
        IF items[i]._id = NoId
        THEN [items[i] EXCEPT
                !._id = next + Cardinality({j \in 1..(i - 1) : items[j]._id = NoId})]
        ELSE items[i]]

\* The record the server holds under an identifier.
Stored(id) == backend[CHOOSE i \in 1..Len(backend) : backend[i]._id = id]

\* POST /schedules: the stored record, with its identifiers.
Created(date, dayType, status, items) ==
    Schedule(nextSid, date, dayType, status, AssignIds(items, nextIid))

\* POST /schedules/{id}/items: the updated parent schedule.
ItemAdded(id, item) ==
    [Stored(id) EXCEPT !.items = Append(@, [WithoutId(item) EXCEPT !._id =
                                              IF item._id = NoId THEN nextIid
                                              ELSE item._id])]

\* PUT /schedules/{id}/items/{itemId} with {completed}: the updated parent.
ItemUpdated(id, itemId, completed) ==
    [Stored(id) EXCEPT !.items =
        MapSeq(@, LAMBDA i : IF i._id = itemId
                             THEN [i EXCEPT !.completed = completed] ELSE i)]

\* DELETE /schedules/{id}/items/{itemId}: the updated parent.
ItemDeleted(id, itemId) ==
    [Stored(id) EXCEPT !.items = FilterSeq(@, LAMBDA i : i._id # itemId)]

\* PUT /schedules/{id}: the updated record (date only when the body has one).
ScheduleUpdated(id, date, status) ==
    [Stored(id) EXCEPT !.status = status,
                       !.date = IF date = NoDate THEN @ ELSE date]

\* -------------------------------------------------------------- skill form
\* Text a user types is a sequence of characters.
Digits == <<"0", "1", "2", "3", "4", "5", "6", "7", "8", "9">>

IsDigit(ch) == \E d \in 1..10 : Digits[d] = ch

DigitValue(ch) == (CHOOSE d \in 1..10 : Digits[d] = ch) - 1

IsSpace(ch) == ch = " "

\* String.prototype.trim
RECURSIVE TrimStart(_)
TrimStart(text) ==
    IF text # <<>> /\ IsSpace(Head(text)) THEN TrimStart(Tail(text)) ELSE text

RECURSIVE TrimEnd(_)
TrimEnd(text) ==
    IF text # <<>> /\ IsSpace(text[Len(text)])
    THEN TrimEnd(SubSeq(text, 1, Len(text) - 1)) ELSE text

Trim(text) == TrimEnd(TrimStart(text))

\* The longest run of digits a text begins with.
RECURSIVE DigitPrefix(_)
DigitPrefix(text) ==
    IF text # <<>> /\ IsDigit(Head(text))
    THEN <<Head(text)>> \o DigitPrefix(Tail(text)) ELSE <<>>

RECURSIVE DecimalValue(_)
DecimalValue(digits) ==
    IF digits = <<>> THEN 0
    ELSE (10 * DecimalValue(SubSeq(digits, 1, Len(digits) - 1)))
         + DigitValue(digits[Len(digits)])

\* parseInt(value): leading white space is skipped, then a sign and the
\* digits up to the first other character are read; NaN without a digit.
ParseInt(value) ==
    LET text == TrimStart(value)
        signed == text # <<>> /\ Head(text) \in {"-", "+"}
        digits == DigitPrefix(IF signed THEN Tail(text) ELSE text)
        magnitude == DecimalValue(digits)
    IN IF digits = <<>> THEN [nan |-> TRUE, n |-> 0]
       ELSE [nan |-> FALSE,
             n |-> IF signed /\ Head(text) = "-" THEN 0 - magnitude ELSE magnitude]

Min(a, b) == IF a <= b THEN a ELSE b

Max(a, b) == IF a >= b THEN a ELSE b

\* A clamp with the ceiling alone: Math.min(100, parseInt(value) || 0).
ClampProgressNoFloor(value) ==
    LET parsed == ParseInt(value)
        number == IF parsed.nan \/ parsed.n = 0 THEN 0 ELSE parsed.n
    IN Min(100, number)

\* Math.min(100, Math.max(0, parseInt(value) || 0))
ClampProgress(value) ==
    LET parsed == ParseInt(value)
        number == IF parsed.nan \/ parsed.n = 0 THEN 0 ELSE parsed.n
    IN Min(100, Max(0, number))

\* The categories prop of the modal: names, or records with a name.
CategoryProps ==
    {[kind |-> "strings", list |-> <<>>],
     [kind |-> "strings", list |-> <<"Web">>],
     [kind |-> "objects", list |-> <<[name |-> "Data"]>>]}

\* useState({...}) of formData, given the categories prop.
NewFormData(cats) ==
    [name |-> <<>>,
     category |-> IF Len(cats.list) > 0
                  THEN IF cats.kind = "strings" THEN cats.list[1]
                       ELSE cats.list[1].name
                  ELSE "",
     status |-> "upcoming",
     progress |-> 0,
     description |-> "",
     priority |-> "medium"]

\* The form of a modal that is not on the page.
\* seen: the formData and isSubmitting the handlers of the last render
\* closed over; inFlight: addSkill calls not yet settled; sent: what
\* addSkill has been called with; closed: calls of onClose; events: the
\* events handled so far; last: the last event, with the input and value
\* it came from and whether handleSubmit left at its isSubmitting guard;
\* before: formData when the last event's handler started; outcome: how
\* the last settled addSkill ended, with the message it threw.
NoEvent == [kind |-> "none", name |-> "", value |-> "", guarded |-> FALSE]

ClosedForm ==
    [open |-> FALSE, formData |-> NewFormData([kind |-> "strings", list |-> <<>>]),
     isSubmitting |-> FALSE, error |-> "",
     seen |-> [formData |-> NewFormData([kind |-> "strings", list |-> <<>>]),
               isSubmitting |-> FALSE],
     inFlight |-> 0, sent |-> <<>>, closed |-> 0, events |-> 0,
     last |-> NoEvent, outcome |-> "none", thrown |-> "",
     before |-> NewFormData([kind |-> "strings", list |-> <<>>])]

\* ------------------------------------------------------------------- init
Init ==
    /\ schedules = <<>>
    /\ loading = TRUE
    /\ error = null
    /\ stats = defaultStats
    /\ categories = <<>>
    /\ isFetchingCategories = FALSE
    /\ isAuthenticated \in BOOLEAN
    /\ view = [schedules |-> <<>>, categories |-> <<>>,
               isFetchingCategories |-> FALSE]
    /\ tz \in TZOffsets
    /\ backend = <<>>
    /\ nextSid = 1
    /\ nextIid = 1
    /\ form = ClosedForm
    /\ calls = [p \in Slots |-> Idle]
    /\ budget = MaxOps

\* The caller awaits each call and lets React render before the next one.
SeqInit == Init /\ serial = TRUE

\* The caller does not wait: calls overlap.
OverlapInit == Init /\ serial = FALSE

\* As OverlapInit, for a signed-in user.
CopyInit == OverlapInit /\ isAuthenticated = TRUE

\* ----------------------------------------------------------------- inputs
\* Bodies a caller hands to createSchedule: a dated body with two items,
\* and the bodies validation turns away: date absent, items missing
\* (hasItems FALSE), items empty.
CreateBodies ==
    LET twoItems == <<Item(NoId, "DSA", "High", 9, 10, TRUE),
                      Item(NoId, "", "Low", NoTime, 10, FALSE)>>
    IN {[date |-> d, hasItems |-> TRUE, items |-> twoItems] : d \in Dates}
       \cup {[date |-> NoDate, hasItems |-> TRUE, items |-> twoItems],
             [date |-> Today, hasItems |-> FALSE, items |-> <<>>],
             [date |-> Today, hasItems |-> TRUE, items |-> <<>>]}

\* Bodies a caller hands to updateSchedule: a status, and perhaps a date.
UpdateBodies ==
    {[date |-> NoDate, status |-> "Completed"], [date |-> Today, status |-> "Planned"]}

\* Messages a failed request carries; the empty one makes the fallback show.
FailMessages == {"", "Network Error"}

\* Identifiers a caller can name: those on screen, or none.
KnownIds == Ids(view.schedules) \cup {NoId}

KnownItemIds(id) ==
    {NoId} \cup UNION {ItemIds(view.schedules[i].items) :
                          i \in {j \in 1..Len(view.schedules) :
                                    view.schedules[j]._id = id}}

\* ------------------------------------------------------------ call slots
\* A call takes the lowest free slot.
FreeSlot(p) ==
    /\ calls[p].pc = "idle"
    /\ \A q \in Slots : q < p => calls[q].pc # "idle"

\* A call can be made: the caller has calls left and, when it makes its
\* calls one at a time, no call is in flight and React has rendered.
CanCall(p) ==
    /\ FreeSlot(p)
    /\ budget > 0
    /\ serial => ((\A q \in Slots : calls[q].pc = "idle") /\ view = Rendered)

Finished(c, result, ret) == [c EXCEPT !.pc = "done", !.result = result, !.ret = ret]

\* The caller has taken the outcome of a finished call.
Return(p) ==
    /\ calls[p].pc = "done"
    /\ calls' = [calls EXCEPT ![p] = Idle]
    /\ UNCHANGED <<budget, storeVars, envVars, view, serverVars>>

\* React renders: new callbacks close over the current state.
Render ==
    /\ view # Rendered
    /\ view' = Rendered
    /\ UNCHANGED <<budget, storeVars, envVars, serverVars, calls>>

\* A guard placed after setLoading(true).
NotAuthenticatedCallSetsLoading(p) ==
    /\ CanCall(p)
    /\ budget' = budget - 1
    /\ ~isAuthenticated
    /\ loading' = TRUE
    /\ \E op \in {"fetchSchedules", "fetchCategories"} :
          calls' = [calls EXCEPT ![p] = Finished(Started(op), "returned", <<>>)]
    /\ UNCHANGED <<schedules, error, stats, categories, isFetchingCategories,
                   envVars, view, serverVars>>

\* if (!isAuthenticated) return;   (fetchCategories: return [])
NotAuthenticatedCall(p) ==
    /\ CanCall(p)
    /\ budget' = budget - 1
    /\ ~isAuthenticated
    /\ \E op \in {"fetchSchedules", "createSchedule", "updateSchedule",
                  "deleteSchedule", "addScheduleItem", "updateScheduleItem",
                  "deleteScheduleItem", "copyScheduleItem", "copySchedule",
                  "fetchCategories"} :
          calls' = [calls EXCEPT ![p] = Finished(Started(op), "returned", <<>>)]
    /\ UNCHANGED <<storeVars, envVars, view, serverVars>>

\* --------------------------------------------------------- fetchSchedules
FetchSchedulesCall(p) ==
    /\ CanCall(p)
    /\ budget' = budget - 1
    /\ isAuthenticated
    /\ loading' = TRUE
    /\ error' = null
    /\ calls' = [calls EXCEPT ![p] =
                    [Started("fetchSchedules") EXCEPT !.pc = "get", !.reqs = 1]]
    /\ UNCHANGED <<schedules, stats, categories, isFetchingCategories,
                   envVars, view, serverVars>>

FetchSchedulesOk(p) ==
    /\ calls[p].op = "fetchSchedules" /\ calls[p].pc = "get"
    /\ schedules' = backend
    /\ stats' = CalcStats(backend)
    /\ loading' = FALSE
    /\ calls' = [calls EXCEPT ![p] = Finished(@, "returned", backend)]
    /\ UNCHANGED <<budget, error, categories, isFetchingCategories, envVars, view,
                   serverVars>>

\* A catch block that records the error and leaves the cache as it is.
FetchSchedulesFailKeepsCache(p) ==
    /\ calls[p].op = "fetchSchedules" /\ calls[p].pc = "get"
    /\ \E msg \in FailMessages :
          /\ error' = IF msg = "" THEN "Failed to fetch schedules" ELSE msg
          /\ calls' = [calls EXCEPT ![p] =
                          Finished([@ EXCEPT !.failed = TRUE, !.msg = msg],
                                   "returned", <<>>)]
    /\ loading' = FALSE
    /\ UNCHANGED <<budget, schedules, stats, categories, isFetchingCategories,
                   envVars, view, serverVars>>

\* A catch block with no finally after it: loading is left as it is.
FetchSchedulesFailKeepsLoading(p) ==
    /\ calls[p].op = "fetchSchedules" /\ calls[p].pc = "get"
    /\ \E msg \in FailMessages :
          /\ error' = IF msg = "" THEN "Failed to fetch schedules" ELSE msg
          /\ calls' = [calls EXCEPT ![p] =
                          Finished([@ EXCEPT !.failed = TRUE, !.msg = msg],
                                   "returned", <<>>)]
    /\ schedules' = <<>>
    /\ stats' = defaultStats
    /\ UNCHANGED <<budget, loading, categories, isFetchingCategories, envVars, view,
                   serverVars>>

FetchSchedulesFail(p) ==
    /\ calls[p].op = "fetchSchedules" /\ calls[p].pc = "get"
    /\ \E msg \in FailMessages :
          /\ error' = IF msg = "" THEN "Failed to fetch schedules" ELSE msg
          /\ calls' = [calls EXCEPT ![p] =
                          Finished([@ EXCEPT !.failed = TRUE, !.msg = msg],
                                   "returned", <<>>)]
    /\ schedules' = <<>>
    /\ stats' = defaultStats
    /\ loading' = FALSE
    /\ UNCHANGED <<budget, categories, isFetchingCategories, envVars, view,
                   serverVars>>

\* --------------------------------------------------------- createSchedule
\* if (!scheduleData.date) throw ...;
\* if (!scheduleData.items || scheduleData.items.length === 0) throw ...
\* A validation that forgets the empty list.
CreateInvalidNoLength(body) == body.date = NoDate \/ ~body.hasItems

CreateInvalid(body) ==
    body.date = NoDate \/ ~body.hasItems \/ Len(body.items) = 0

CreateScheduleCall(p) ==
    /\ CanCall(p)
    /\ budget' = budget - 1
    /\ isAuthenticated
    /\ \E body \in CreateBodies :
          LET c == [Started("createSchedule") EXCEPT
                       !.target = body.date, !.hasItems = body.hasItems,
                       !.items = body.items]
          IN calls' = [calls EXCEPT ![p] =
                IF CreateInvalid(body) THEN Finished(c, "raised", <<>>)
                ELSE [c EXCEPT !.pc = "post", !.reqs = 1,
                               !.date = ParseDate(body.date)]]
    /\ UNCHANGED <<storeVars, envVars, view, serverVars>>

CreateScheduleOk(p) ==
    /\ calls[p].op = "createSchedule" /\ calls[p].pc = "post"
    /\ LET newSchedule ==
               Created(calls[p].date,
                       IF IsWeekendDate(ISODate(calls[p].date)) THEN "Weekend"
                       ELSE "Weekday",
                       "Planned", calls[p].items)
       IN /\ backend' = Append(backend, newSchedule)
          /\ nextSid' = nextSid + 1
          /\ nextIid' = nextIid + NumNew(calls[p].items)
          /\ schedules' = Append(schedules, newSchedule)
          /\ stats' = CalcStats(Append(calls[p].closure, newSchedule))
          /\ calls' = [calls EXCEPT ![p] =
                          Finished([@ EXCEPT !.made = newSchedule._id],
                                   "returned", <<newSchedule>>)]
    /\ UNCHANGED <<budget, loading, error, categories, isFetchingCategories, envVars,
                   view>>

\* A catch block that clears the cache as fetchSchedules' does.
MutationFailResets(p) ==
    /\ calls[p].op \in {"createSchedule", "updateSchedule", "deleteSchedule",
                        "addScheduleItem", "updateScheduleItem",
                        "deleteScheduleItem"}
    /\ calls[p].pc \in {"post", "put", "delete"}
    /\ schedules' = <<>>
    /\ stats' = defaultStats
    /\ calls' = [calls EXCEPT ![p] =
                    Finished([@ EXCEPT !.failed = TRUE], "raised", <<>>)]
    /\ UNCHANGED <<budget, loading, error, categories, isFetchingCategories,
                   envVars, view, serverVars>>

\* catch (err) { toast.error(...); throw err; } of the six mutations
MutationFail(p) ==
    /\ calls[p].op \in {"createSchedule", "updateSchedule", "deleteSchedule",
                        "addScheduleItem", "updateScheduleItem",
                        "deleteScheduleItem"}
    /\ calls[p].pc \in {"post", "put", "delete"}
    /\ calls' = [calls EXCEPT ![p] =
                    Finished([@ EXCEPT !.failed = TRUE], "raised", <<>>)]
    /\ UNCHANGED <<budget, storeVars, envVars, view, serverVars>>

\* --------------------------------------------------------- updateSchedule
UpdateScheduleCall(p) ==
    /\ CanCall(p)
    /\ budget' = budget - 1
    /\ isAuthenticated
    /\ \E id \in KnownIds, updates \in UpdateBodies :
          LET c == [Started("updateSchedule") EXCEPT
                       !.sid = id, !.status = updates.status,
                       !.date = IF updates.date = NoDate THEN NoDate
                                ELSE ParseDate(updates.date)]
          IN calls' = [calls EXCEPT ![p] =
                IF id = NoId THEN Finished(c, "raised", <<>>)
                ELSE [c EXCEPT !.pc = "put", !.reqs = 1]]
    /\ UNCHANGED <<storeVars, envVars, view, serverVars>>

\* A tail that writes the mapped closure: setSchedules(schedules.map(...)).
ReconcileFromClosure(p, updatedSchedule) ==
    /\ backend' = ReplaceById(backend, calls[p].sid, updatedSchedule)
    /\ schedules' = ReplaceById(calls[p].closure, calls[p].sid, updatedSchedule)
    /\ stats' = CalcStats(ReplaceById(calls[p].closure, calls[p].sid,
                                      updatedSchedule))
    /\ calls' = [calls EXCEPT ![p] = Finished(@, "returned", <<updatedSchedule>>)]
    /\ UNCHANGED <<budget, loading, error, categories, isFetchingCategories, envVars,
                   view, nextSid>>

\* The shared tail of updateSchedule and the three item mutations:
\* setSchedules((prev) => prev.map(...)); calculateStats(schedules.map(...))
Reconcile(p, updatedSchedule) ==
    /\ backend' = ReplaceById(backend, calls[p].sid, updatedSchedule)
    /\ schedules' = ReplaceById(schedules, calls[p].sid, updatedSchedule)
    /\ stats' = CalcStats(ReplaceById(calls[p].closure, calls[p].sid,
                                      updatedSchedule))
    /\ calls' = [calls EXCEPT ![p] = Finished(@, "returned", <<updatedSchedule>>)]
    /\ UNCHANGED <<budget, loading, error, categories, isFetchingCategories, envVars,
                   view, nextSid>>

UpdateScheduleOk(p) ==
    /\ calls[p].op = "updateSchedule" /\ calls[p].pc = "put"
    /\ calls[p].sid \in Ids(backend)
    /\ Reconcile(p, ScheduleUpdated(calls[p].sid, calls[p].date, calls[p].status))
    /\ UNCHANGED nextIid

\* --------------------------------------------------------- deleteSchedule
DeleteScheduleCall(p) ==
    /\ CanCall(p)
    /\ budget' = budget - 1
    /\ isAuthenticated
    /\ \E id \in KnownIds :
          LET c == [Started("deleteSchedule") EXCEPT !.sid = id]
          IN calls' = [calls EXCEPT ![p] =
                IF id = NoId THEN Finished(c, "raised", <<>>)
                ELSE [c EXCEPT !.pc = "delete", !.reqs = 1]]
    /\ UNCHANGED <<storeVars, envVars, view, serverVars>>

DeleteScheduleOk(p) ==
    /\ calls[p].op = "deleteSchedule" /\ calls[p].pc = "delete"
    /\ calls[p].sid \in Ids(backend)
    /\ backend' = RemoveById(backend, calls[p].sid)
    /\ LET updatedSchedules == RemoveById(calls[p].closure, calls[p].sid)
       IN /\ schedules' = updatedSchedules
          /\ stats' = CalcStats(updatedSchedules)
    /\ calls' = [calls EXCEPT ![p] =
                    Finished([@ EXCEPT !.gone = calls[p].sid], "returned", <<>>)]
    /\ UNCHANGED <<budget, loading, error, categories, isFetchingCategories, envVars,
                   view, nextSid, nextIid>>

\* --------------------------------------------------------- item mutations
AddScheduleItemCall(p) ==
    /\ CanCall(p)
    /\ budget' = budget - 1
    /\ isAuthenticated
    /\ \E scheduleId \in KnownIds, itemData \in ItemPayloads :
          LET c == [Started("addScheduleItem") EXCEPT
                       !.sid = scheduleId, !.items = <<itemData>>]
          IN calls' = [calls EXCEPT ![p] =
                IF scheduleId = NoId THEN Finished(c, "raised", <<>>)
                ELSE [c EXCEPT !.pc = "post", !.reqs = 1]]
    /\ UNCHANGED <<storeVars, envVars, view, serverVars>>

AddScheduleItemOk(p) ==
    /\ calls[p].op = "addScheduleItem" /\ calls[p].pc = "post"
    /\ calls[p].sid \in Ids(backend)
    /\ Reconcile(p, ItemAdded(calls[p].sid, calls[p].items[1]))
    /\ nextIid' = nextIid + 1

UpdateScheduleItemCall(p) ==
    /\ CanCall(p)
    /\ budget' = budget - 1
    /\ isAuthenticated
    /\ \E scheduleId \in KnownIds, completed \in BOOLEAN :
         \E itemId \in KnownItemIds(scheduleId) :
          LET c == [Started("updateScheduleItem") EXCEPT
                       !.sid = scheduleId, !.iid = itemId,
                       !.completed = completed]
          IN calls' = [calls EXCEPT ![p] =
                IF scheduleId = NoId \/ itemId = NoId
                THEN Finished(c, "raised", <<>>)
                ELSE [c EXCEPT !.pc = "put", !.reqs = 1]]
    /\ UNCHANGED <<storeVars, envVars, view, serverVars>>

UpdateScheduleItemOk(p) ==
    /\ calls[p].op = "updateScheduleItem" /\ calls[p].pc = "put"
    /\ calls[p].sid \in Ids(backend)
    /\ calls[p].iid \in ItemIds(Stored(calls[p].sid).items)
    /\ Reconcile(p, ItemUpdated(calls[p].sid, calls[p].iid, calls[p].completed))
    /\ UNCHANGED nextIid

DeleteScheduleItemCall(p) ==
    /\ CanCall(p)
    /\ budget' = budget - 1
    /\ isAuthenticated
    /\ \E scheduleId \in KnownIds :
         \E itemId \in KnownItemIds(scheduleId) :
          LET c == [Started("deleteScheduleItem") EXCEPT
                       !.sid = scheduleId, !.iid = itemId]
          IN calls' = [calls EXCEPT ![p] =
                IF scheduleId = NoId \/ itemId = NoId
                THEN Finished(c, "raised", <<>>)
                ELSE [c EXCEPT !.pc = "delete", !.reqs = 1]]
    /\ UNCHANGED <<storeVars, envVars, view, serverVars>>

DeleteScheduleItemOk(p) ==
    /\ calls[p].op = "deleteScheduleItem" /\ calls[p].pc = "delete"
    /\ calls[p].sid \in Ids(backend)
    /\ calls[p].iid \in ItemIds(Stored(calls[p].sid).items)
    /\ Reconcile(p, ItemDeleted(calls[p].sid, calls[p].iid))
    /\ UNCHANGED nextIid

\* ------------------------------------------------------- copyScheduleItem
\* The items a caller can pick on screen.
KnownItems ==
    UNION {{view.schedules[k].items[j] : j \in 1..Len(view.schedules[k].items)} :
              k \in 1..Len(view.schedules)}

CopyScheduleItemCall(p) ==
    /\ CanCall(p)
    /\ budget' = budget - 1
    /\ isAuthenticated
    /\ loading' = TRUE
    /\ \E item \in KnownItems, targetDate \in Dates :
          LET c == [Started("copyScheduleItem") EXCEPT
                       !.reqs = 1, !.items = <<item>>,
                       !.date = FormattedDate(targetDate, tz),
                       !.target = targetDate]
          IN calls' = [calls EXCEPT ![p] =
                IF OnDate(view.schedules, targetDate) = {}
                THEN [c EXCEPT !.pc = "post_schedule"]
                ELSE [c EXCEPT !.pc = "post_item",
                               !.sid = FindOnDate(view.schedules, targetDate)._id]]
    /\ UNCHANGED <<schedules, error, stats, categories, isFetchingCategories,
                   envVars, view, serverVars>>

\* const response = await apiClient.post("/schedules", newScheduleData) went
\* through: the new schedule is appended and the item request goes out.
CopyScheduleItemCreateOk(p) ==
    /\ calls[p].op = "copyScheduleItem" /\ calls[p].pc = "post_schedule"
    /\ LET targetSchedule ==
               Created(calls[p].date, DayTypeOf(calls[p].date, tz), "Planned", <<>>)
       IN /\ backend' = Append(backend, targetSchedule)
          /\ nextSid' = nextSid + 1
          /\ schedules' = Append(schedules, targetSchedule)
          /\ calls' = [calls EXCEPT ![p] =
                          [@ EXCEPT !.pc = "post_item", !.reqs = 2,
                                    !.sid = targetSchedule._id,
                                    !.made = targetSchedule._id]]
    /\ UNCHANGED <<budget, loading, error, stats, categories, isFetchingCategories,
                   envVars, view, nextIid>>

CopyScheduleItemAddOk(p) ==
    /\ calls[p].op = "copyScheduleItem" /\ calls[p].pc = "post_item"
    /\ calls[p].sid \in Ids(backend)
    /\ LET updatedSchedule == ItemAdded(calls[p].sid, WithoutId(calls[p].items[1]))
       IN /\ backend' = ReplaceById(backend, calls[p].sid, updatedSchedule)
          /\ nextIid' = nextIid + 1
          /\ schedules' = ReplaceById(schedules, calls[p].sid, updatedSchedule)
          /\ stats' = CalcStats(calls[p].closure)
          /\ loading' = FALSE
          /\ calls' = [calls EXCEPT ![p] =
                          Finished(@, "returned", <<updatedSchedule>>)]
    /\ UNCHANGED <<budget, error, categories, isFetchingCategories, envVars, view,
                   nextSid>>

\* catch (err) { ...; throw err; } finally { setLoading(false); }
CopyFail(p) ==
    /\ calls[p].op \in {"copyScheduleItem", "copySchedule"}
    /\ calls[p].pc \in {"post_schedule", "post_item", "delete_existing"}
    /\ loading' = FALSE
    /\ calls' = [calls EXCEPT ![p] =
                    Finished([@ EXCEPT !.failed = TRUE], "raised", <<>>)]
    /\ UNCHANGED <<budget, schedules, error, stats, categories, isFetchingCategories,
                   envVars, view, serverVars>>

\* ----------------------------------------------------------- copySchedule
CopyScheduleCall(p) ==
    /\ CanCall(p)
    /\ budget' = budget - 1
    /\ isAuthenticated
    /\ loading' = TRUE
    /\ \E k \in 1..Len(view.schedules), targetDate \in Dates :
          LET sourceSchedule == view.schedules[k]
              c == [Started("copySchedule") EXCEPT
                       !.reqs = 1, !.items = sourceSchedule.items,
                       !.date = FormattedDate(targetDate, tz),
                       !.target = targetDate]
          IN calls' = [calls EXCEPT ![p] =
                IF OnDate(view.schedules, targetDate) = {}
                THEN [c EXCEPT !.pc = "post_schedule"]
                ELSE [c EXCEPT !.pc = "delete_existing",
                               !.sid = FindOnDate(view.schedules, targetDate)._id]]
    /\ UNCHANGED <<schedules, error, stats, categories, isFetchingCategories,
                   envVars, view, serverVars>>

\* A deletion that is sent to the server and not applied to the cache.
CopyScheduleDeleteOkKeepsCache(p) ==
    /\ calls[p].op = "copySchedule" /\ calls[p].pc = "delete_existing"
    /\ calls[p].sid \in Ids(backend)
    /\ backend' = RemoveById(backend, calls[p].sid)
    /\ calls' = [calls EXCEPT ![p] =
                    [@ EXCEPT !.pc = "post_schedule", !.reqs = 2,
                              !.gone = calls[p].sid]]
    /\ UNCHANGED <<budget, schedules, loading, error, stats, categories,
                   isFetchingCategories, envVars, view, nextSid, nextIid>>

\* await apiClient.delete(`/schedules/${existingSchedule._id}`) went through.
CopyScheduleDeleteOk(p) ==
    /\ calls[p].op = "copySchedule" /\ calls[p].pc = "delete_existing"
    /\ calls[p].sid \in Ids(backend)
    /\ backend' = RemoveById(backend, calls[p].sid)
    /\ schedules' = RemoveById(schedules, calls[p].sid)
    /\ calls' = [calls EXCEPT ![p] =
                    [@ EXCEPT !.pc = "post_schedule", !.reqs = 2,
                              !.gone = calls[p].sid]]
    /\ UNCHANGED <<budget, loading, error, stats, categories, isFetchingCategories,
                   envVars, view, nextSid, nextIid>>

CopyScheduleCreateOk(p) ==
    /\ calls[p].op = "copySchedule" /\ calls[p].pc = "post_schedule"
    /\ LET newSchedule ==
               Created(calls[p].date, DayTypeOf(calls[p].date, tz), "Planned",
                       CopiedItems(calls[p].items))
       IN /\ backend' = Append(backend, newSchedule)
          /\ nextSid' = nextSid + 1
          /\ nextIid' = nextIid + NumNew(CopiedItems(calls[p].items))
          /\ schedules' = Append(schedules, newSchedule)
          /\ stats' = CalcStats(Append(RemoveById(calls[p].closure, calls[p].sid),
                                       newSchedule))
          /\ loading' = FALSE
          /\ calls' = [calls EXCEPT ![p] =
                          Finished([@ EXCEPT !.made = newSchedule._id],
                                   "returned", <<newSchedule>>)]
    /\ UNCHANGED <<budget, error, categories, isFetchingCategories, envVars, view>>

\* -------------------------------------------------------- fetchCategories
\* What GET /categories?type=schedule can answer: a bare array of {name},
\* {data: array of {name}}, {categories: array of string}, or something else.
CategoryResponses ==
    {[shape |-> "array", entries |-> <<[name |-> "Work"]>>],
     [shape |-> "data", entries |-> <<[name |-> "Work"], [name |-> "Study"]>>],
     [shape |-> "categories", entries |-> <<"Study">>],
     [shape |-> "other", entries |-> <<>>]}

\* An if / else-if chain whose else leaves the list empty.
ExtractCategoriesNoFallback(response) ==
    IF response.shape \in {"array", "data"}
    THEN MapSeq(response.entries, LAMBDA cat : cat.name)
    ELSE IF response.shape = "categories" THEN response.entries
    ELSE <<>>

\* The if / else-if chain over the response's shape.
ExtractCategories(response) ==
    IF response.shape \in {"array", "data"}
    THEN MapSeq(response.entries, LAMBDA cat : cat.name)
    ELSE IF response.shape = "categories" THEN response.entries
    ELSE defaultCategories

FetchCategoriesCall(p) ==
    /\ CanCall(p)
    /\ budget' = budget - 1
    /\ isAuthenticated
    /\ IF view.isFetchingCategories
       THEN /\ calls' = [calls EXCEPT ![p] =
                   Finished(Started("fetchCategories"), "returned", view.categories)]
            /\ UNCHANGED isFetchingCategories
       ELSE /\ isFetchingCategories' = TRUE
            /\ calls' = [calls EXCEPT ![p] =
                   [Started("fetchCategories") EXCEPT !.pc = "get", !.reqs = 1]]
    /\ UNCHANGED <<schedules, loading, error, stats, categories, envVars,
                   view, serverVars>>

FetchCategoriesOk(p) ==
    /\ calls[p].op = "fetchCategories" /\ calls[p].pc = "get"
    /\ \E response \in CategoryResponses :
          LET extractedCategories == ExtractCategories(response)
          IN /\ categories' = extractedCategories
             /\ calls' = [calls EXCEPT ![p] =
                             Finished([@ EXCEPT !.response = response],
                                      "returned", extractedCategories)]
    /\ isFetchingCategories' = FALSE
    /\ UNCHANGED <<budget, schedules, loading, error, stats, envVars, view,
                   serverVars>>

\* A catch block that hands back the list it had and skips the finally.
FetchCategoriesFailKeepsFlag(p) ==
    /\ calls[p].op = "fetchCategories" /\ calls[p].pc = "get"
    /\ calls' = [calls EXCEPT ![p] =
                    Finished([@ EXCEPT !.failed = TRUE], "returned", categories)]
    /\ UNCHANGED <<budget, storeVars, envVars, view, serverVars>>

FetchCategoriesFail(p) ==
    /\ calls[p].op = "fetchCategories" /\ calls[p].pc = "get"
    /\ categories' = defaultCategories
    /\ isFetchingCategories' = FALSE
    /\ calls' = [calls EXCEPT ![p] =
                    Finished([@ EXCEPT !.failed = TRUE], "returned",
                             defaultCategories)]
    /\ UNCHANGED <<budget, schedules, loading, error, stats, envVars, view,
                   serverVars>>

\* ---------------------------------------------------------- specifications
\* A call of one of the nine schedule operations.
Call(p) ==
    \/ NotAuthenticatedCall(p)
    \/ FetchSchedulesCall(p) \/ CreateScheduleCall(p) \/ UpdateScheduleCall(p)
    \/ DeleteScheduleCall(p) \/ AddScheduleItemCall(p)
    \/ UpdateScheduleItemCall(p) \/ DeleteScheduleItemCall(p)
    \/ CopyScheduleItemCall(p) \/ CopyScheduleCall(p)

\* The continuation of a schedule call in flight: its request is answered.
Respond(p) ==
    \/ FetchSchedulesOk(p) \/ FetchSchedulesFail(p)
    \/ CreateScheduleOk(p) \/ UpdateScheduleOk(p) \/ DeleteScheduleOk(p)
    \/ AddScheduleItemOk(p) \/ UpdateScheduleItemOk(p)
    \/ DeleteScheduleItemOk(p) \/ MutationFail(p)
    \/ CopyScheduleItemCreateOk(p) \/ CopyScheduleItemAddOk(p)
    \/ CopyScheduleDeleteOk(p) \/ CopyScheduleCreateOk(p) \/ CopyFail(p)
    \/ Return(p)

Next == Render \/ \E p \in Slots : Call(p) \/ Respond(p)

\* Schedule calls overlap, and a call may come before React has rendered
\* again.
Spec == OverlapInit /\ [][Next]_vars

\* One schedule call at a time, each made from a fresh render.
SeqSpec == SeqInit /\ [][Next]_vars

\* After a first createSchedule has filled the cache, only copyScheduleItem
\* and copySchedule calls are made; they overlap.
CopyNext ==
    \/ Render
    \/ \E p \in Slots :
          \/ (budget = MaxOps /\ CreateScheduleCall(p))
          \/ CreateScheduleOk(p) \/ MutationFail(p)
          \/ CopyScheduleItemCall(p) \/ CopyScheduleItemCreateOk(p)
          \/ CopyScheduleItemAddOk(p)
          \/ CopyScheduleCall(p) \/ CopyScheduleDeleteOk(p)
          \/ CopyScheduleCreateOk(p) \/ CopyFail(p)
          \/ Return(p)

CopySpec == CopyInit /\ [][CopyNext]_vars

\* The category calls alone, overlapping.
CatNext ==
    \/ Render
    \/ \E p \in Slots :
          \/ NotAuthenticatedCall(p)
          \/ FetchCategoriesCall(p) \/ FetchCategoriesOk(p)
          \/ FetchCategoriesFail(p) \/ Return(p)

CatSpec == OverlapInit /\ [][CatNext]_vars

\* The user signs out: useAuth hands the hook isAuthenticated = false and
\* the hook renders again.
SignOut ==
    /\ isAuthenticated
    /\ \A q \in Slots : calls[q].pc = "idle"
    /\ isAuthenticated' = FALSE
    /\ view' = Rendered
    /\ UNCHANGED <<budget, storeVars, tz, serial, form, serverVars, calls>>

\* Calls made one at a time by a user who may sign out between two calls.
AuthNext ==
    \/ Next
    \/ SignOut
    \/ \E p \in Slots :
          FetchCategoriesCall(p) \/ FetchCategoriesOk(p) \/ FetchCategoriesFail(p)

AuthSpec == SeqInit /\ [][AuthNext]_vars

\* fetchSchedules with calls that overlap, after at most one createSchedule.
FetchNext ==
    \/ Render
    \/ \E p \in Slots :
          \/ FetchSchedulesCall(p) \/ FetchSchedulesOk(p) \/ FetchSchedulesFail(p)
          \/ (budget = MaxOps /\ CreateScheduleCall(p))
          \/ CreateScheduleOk(p) \/ MutationFail(p)
          \/ Return(p)

\* Every GET /schedules is answered in the end, with success or failure.
FetchAnswered == \A p \in Slots : WF_vars(FetchSchedulesOk(p) \/ FetchSchedulesFail(p))

FetchSpec == CopyInit /\ [][FetchNext]_vars /\ FetchAnswered

\* createSchedule and deleteSchedule calls alone, overlapping, with every
\* request answered with success.
EditNext ==
    \/ Render
    \/ \E p \in Slots :
          \/ CreateScheduleCall(p) \/ CreateScheduleOk(p)
          \/ DeleteScheduleCall(p) \/ DeleteScheduleOk(p)
          \/ Return(p)

EditSpec == CopyInit /\ [][EditNext]_vars

\* ------------------------------------------------------- skill form events
\* Everything but the form.
hookVars == <<budget, storeVars, isAuthenticated, tz, serial, view, serverVars,
              calls>>

\* The inputs of the form that report to handleChange.
Fields == {"name", "category", "status", "progress", "priority", "description"}

\* Values an input can report. Text the user types is a sequence of
\* characters; a select reports the value of one of its options.
FieldValues(field) ==
    CASE field = "name" -> {<<>>, <<" ", " ">>, <<"G", "o">>}
      [] field = "category" -> {"", "Web"}
      [] field = "status" -> {"upcoming", "in-progress", "completed"}
      [] field = "progress" ->
            {<<"1", "5", "0">>, <<"-", "5">>, <<"a", "b", "c">>, <<"4", "2">>,
             <<>>, <<"7", "p", "x">>, <<" ", "1", "0", "0">>}
      [] field = "priority" -> {"high"}
      [] field = "description" -> {"notes"}

\* What a render hands to the handlers it creates.
FormRendered(f) == [formData |-> f.formData, isSubmitting |-> f.isSubmitting]

\* React renders when an event handler returns.
AfterEvent(f, event) ==
    [f EXCEPT !.seen = FormRendered(f), !.events = @ + 1, !.last = event,
              !.before = form.seen.formData]

\* The modal is put on the page with a categories prop.
OpenModal ==
    /\ ~form.open
    /\ \E cats \in CategoryProps :
          form' = [ClosedForm EXCEPT
                      !.open = TRUE,
                      !.formData = NewFormData(cats),
                      !.seen = [formData |-> NewFormData(cats),
                                isSubmitting |-> FALSE]]
    /\ UNCHANGED hookVars

\* React renders after state was set outside an event handler.
FormRender ==
    /\ form.open
    /\ form.seen # FormRendered(form)
    /\ form' = [form EXCEPT !.seen = FormRendered(form)]
    /\ UNCHANGED hookVars

\* A handleChange whose second update spreads the closure too:
\* setFormData({ ...formData, progress: 100 }).
handleChangeFromClosure ==
    /\ form.open /\ form.events < MaxEvents
    /\ \E name \in Fields : \E value \in FieldValues(name) :
          LET formData == form.seen.formData
              changed == IF name = "progress"
                         THEN [formData EXCEPT !.progress = ClampProgress(value)]
                         ELSE [formData EXCEPT ![name] = value]
              completed == IF name = "status"
                           THEN IF value = "completed"
                                THEN [formData EXCEPT !.progress = 100]
                                ELSE changed
                           ELSE changed
          IN form' = AfterEvent([form EXCEPT !.formData = completed],
                                [NoEvent EXCEPT !.kind = "change", !.name = name,
                                                !.value = value])
    /\ UNCHANGED hookVars

handleChange ==
    /\ form.open /\ form.events < MaxEvents
    /\ \E name \in Fields : \E value \in FieldValues(name) :
          LET formData == form.seen.formData
              changed == IF name = "progress"
                         THEN [formData EXCEPT !.progress = ClampProgress(value)]
                         ELSE [formData EXCEPT ![name] = value]
              completed == IF name = "status"
                           THEN IF value = "completed"
                                THEN [changed EXCEPT !.progress = 100]
                                ELSE changed
                           ELSE changed
          IN form' = AfterEvent([form EXCEPT !.formData = completed],
                                [NoEvent EXCEPT !.kind = "change", !.name = name,
                                                !.value = value])
    /\ UNCHANGED hookVars

\* A handleSubmit without the isSubmitting guard.
handleSubmitNoGuard ==
    /\ form.open /\ form.events < MaxEvents
    /\ LET formData == form.seen.formData
       IN form' = AfterEvent(
             IF Trim(formData.name) = <<>>
             THEN [form EXCEPT !.error = "Skill name is required"]
             ELSE IF formData.category = ""
                  THEN [form EXCEPT !.error = "Category is required"]
             ELSE [form EXCEPT !.error = "", !.isSubmitting = TRUE,
                               !.inFlight = @ + 1,
                               !.sent = Append(@, formData)],
             [NoEvent EXCEPT !.kind = "submit"])
    /\ UNCHANGED hookVars

\* A handleSubmit that tests the name as typed: !formData.name.
handleSubmitNoTrim ==
    /\ form.open /\ form.events < MaxEvents
    /\ LET formData == form.seen.formData
       IN form' = AfterEvent(
             IF form.seen.isSubmitting THEN form
             ELSE IF formData.name = <<>>
                  THEN [form EXCEPT !.error = "Skill name is required"]
             ELSE IF formData.category = ""
                  THEN [form EXCEPT !.error = "Category is required"]
             ELSE [form EXCEPT !.error = "", !.isSubmitting = TRUE,
                               !.inFlight = @ + 1,
                               !.sent = Append(@, formData)],
             [NoEvent EXCEPT !.kind = "submit",
                             !.guarded = form.seen.isSubmitting])
    /\ UNCHANGED hookVars

\* handleSubmit up to its await.
handleSubmit ==
    /\ form.open /\ form.events < MaxEvents
    /\ LET formData == form.seen.formData
       IN form' = AfterEvent(
             IF form.seen.isSubmitting THEN form
             ELSE IF Trim(formData.name) = <<>>
                  THEN [form EXCEPT !.error = "Skill name is required"]
             ELSE IF formData.category = ""
                  THEN [form EXCEPT !.error = "Category is required"]
             ELSE [form EXCEPT !.error = "", !.isSubmitting = TRUE,
                               !.inFlight = @ + 1,
                               !.sent = Append(@, formData)],
             [NoEvent EXCEPT !.kind = "submit",
                             !.guarded = form.seen.isSubmitting])
    /\ UNCHANGED hookVars

\* await addSkill(formData) went through: onClose(), then the finally.
AddSkillOk ==
    /\ form.inFlight > 0
    /\ form' = [form EXCEPT !.inFlight = @ - 1, !.closed = @ + 1,
                            !.isSubmitting = FALSE,
                            !.outcome = "resolved", !.thrown = ""]
    /\ UNCHANGED hookVars

\* A handleSubmit that calls onClose() in its finally.
AddSkillFailCloses ==
    /\ form.inFlight > 0
    /\ \E msg \in FailMessages :
          form' = [form EXCEPT
                      !.inFlight = @ - 1, !.closed = @ + 1,
                      !.error = IF msg = "" THEN "Failed to add skill" ELSE msg,
                      !.isSubmitting = FALSE,
                      !.outcome = "threw", !.thrown = msg]
    /\ UNCHANGED hookVars

\* addSkill threw: the catch, then the finally.
AddSkillFail ==
    /\ form.inFlight > 0
    /\ \E msg \in FailMessages :
          form' = [form EXCEPT
                      !.inFlight = @ - 1,
                      !.error = IF msg = "" THEN "Failed to add skill" ELSE msg,
                      !.isSubmitting = FALSE,
                      !.outcome = "threw", !.thrown = msg]
    /\ UNCHANGED hookVars

FormNext ==
    \/ OpenModal \/ FormRender \/ handleChange \/ handleSubmit
    \/ AddSkillOk \/ AddSkillFail

\* The page with the hook at rest.
FormInit == Init /\ serial = TRUE /\ isAuthenticated = TRUE /\ tz = 0

FormSpec == FormInit /\ [][FormNext]_vars

\* ------------------------------------------------- statistics of a fetch
\* Items the server may hold: a completed one and an open one with a label
\* each, an open one whose label is a number, and an open one without a
\* label.
StatItems ==
    {Item(NoId, "DSA", "High", 9, 10, TRUE),
     Item(NoId, "Dev", "Low", 9, 11, FALSE),
     Item(NoId, "7", "Low", 9, 10, FALSE),
     Item(NoId, "", "Low", NoTime, 10, FALSE)}

\* The item lists of a schedule, up to MaxStatItems items.
StatItemLists == UNION {[1..n -> StatItems] : n \in 0..MaxStatItems}

\* How many items come before schedule k.
RECURSIVE ItemsBefore(_, _)
ItemsBefore(lists, k) ==
    IF k <= 1 THEN 0 ELSE ItemsBefore(lists, k - 1) + Len(lists[k - 1])

\* The schedules the server stores for the given item lists, with the
\* identifiers it assigned in creation order.
Numbered(lists) ==
    [k \in 1..Len(lists) |->
        Schedule(k, ParseDate(Today), "Weekday", "Planned",
                 [i \in 1..Len(lists[k]) |->
                     [lists[k][i] EXCEPT !._id = ItemsBefore(lists, k) + i]])]

\* What the server may hold when the page loads.
ServerContents ==
    {Numbered(lists) :
        lists \in UNION {[1..n -> StatItemLists] : n \in 0..MaxStatSchedules}}

\* The hook on a page that loads over a server that holds schedules.
StatsInit ==
    /\ schedules = <<>>
    /\ loading = TRUE
    /\ error = null
    /\ stats = defaultStats
    /\ categories = <<>>
    /\ isFetchingCategories = FALSE
    /\ isAuthenticated = TRUE
    /\ view = [schedules |-> <<>>, categories |-> <<>>,
               isFetchingCategories |-> FALSE]
    /\ tz = 0
    /\ serial = TRUE
    /\ backend \in ServerContents
    /\ nextSid = Len(backend) + 1
    /\ nextIid = Len(AllItems(backend)) + 1
    /\ form = ClosedForm
    /\ calls = [p \in Slots |-> Idle]
    /\ budget = 1

\* The initial load: useEffect calls fetchSchedules, which hands what it
\* fetched to calculateStats.
StatsNext ==
    \E p \in Slots : FetchSchedulesCall(p) \/ FetchSchedulesOk(p)

StatsSpec == StatsInit /\ [][StatsNext]_vars

\* ------------------------------------------------------------------ claims
ItemMutations == {"addScheduleItem", "updateScheduleItem", "deleteScheduleItem"}

Mutations == {"createSchedule", "updateSchedule", "deleteSchedule"} \cup ItemMutations

\* The arguments of a call fail the operation's local validation.
InvalidArgs(c) ==
    \/ c.op = "createSchedule"
         /\ (c.target = NoDate \/ ~c.hasItems \/ c.items = <<>>)
    \/ c.op \in {"updateSchedule", "deleteSchedule", "addScheduleItem"}
         /\ c.sid = NoId
    \/ c.op \in {"updateScheduleItem", "deleteScheduleItem"}
         /\ (c.sid = NoId \/ c.iid = NoId)

\* C1: an authenticated mutation whose arguments fail local validation
\* raises, has issued no request, and leaves schedules and stats as they
\* were when it was called.
C1_ValidationRaisesWithoutRequest ==
    \A p \in Slots :
       (isAuthenticated /\ calls[p].op \in Mutations /\ InvalidArgs(calls[p]))
       => /\ calls[p].pc = "done"
          /\ calls[p].result = "raised"
          /\ calls[p].reqs = 0
          /\ schedules = calls[p].before[1]
          /\ stats = calls[p].before[2]

\* A createSchedule with an empty item list was turned away while the cache
\* held schedules.
C1_Witness ==
    \E p \in Slots :
       /\ calls[p].op = "createSchedule" /\ calls[p].pc = "done"
       /\ calls[p].target # NoDate /\ calls[p].hasItems /\ calls[p].items = <<>>
       /\ calls[p].result = "raised"
       /\ schedules # <<>>

\* C2: a mutation whose backend request failed has raised, and schedules
\* and stats are what they were when it was called.
C2_FailedMutationKeepsCache ==
    \A p \in Slots :
       (calls[p].op \in Mutations /\ calls[p].failed)
       => /\ calls[p].pc = "done"
          /\ calls[p].result = "raised"
          /\ schedules = calls[p].before[1]
          /\ stats = calls[p].before[2]

\* A deleteSchedule request failed while the cache held schedules and
\* statistics of them.
C2_Witness ==
    \E p \in Slots :
       /\ calls[p].op = "deleteSchedule" /\ calls[p].failed
       /\ calls[p].reqs = 1
       /\ schedules # <<>> /\ stats # defaultStats

\* A call that has finished with every request of it answered successfully.
Succeeded(c) ==
    c.pc = "done" /\ c.reqs > 0 /\ ~c.failed /\ c.result = "returned"

\* C3: once a schedule operation, run alone, has succeeded, stats is the
\* statistics of the schedules collection as it stands.
C3_StatsFollowSchedules ==
    \A p \in Slots : Succeeded(calls[p]) => stats = CalcStats(schedules)

\* C3, for every operation but copyScheduleItem.
C3_StatsFollowSchedulesButCopyItem ==
    \A p \in Slots :
       (Succeeded(calls[p]) /\ calls[p].op # "copyScheduleItem")
       => stats = CalcStats(schedules)

\* C4: a fetchSchedules whose request failed has ended with error set to
\* the failure's message, or to the fallback text when it has none, with
\* no schedules and with the zero statistics.
C4_FailedFetchResets ==
    \A p \in Slots :
       (calls[p].op = "fetchSchedules" /\ calls[p].failed)
       => /\ calls[p].pc = "done"
          /\ error = (IF calls[p].msg = "" THEN "Failed to fetch schedules"
                      ELSE calls[p].msg)
          /\ schedules = <<>>
          /\ stats = defaultStats

\* A fetch failed when the cache held schedules and statistics of them.
C4_Witness ==
    \E p \in Slots :
       /\ calls[p].op = "fetchSchedules" /\ calls[p].failed
       /\ calls[p].before[1] # <<>>
       /\ calls[p].before[2] # defaultStats

\* The copySchedule call c has succeeded and the cache held a schedule, and
\* only one, for its target date when it was called.
CopiedOver(c) ==
    /\ c.op = "copySchedule" /\ Succeeded(c)
    /\ Cardinality(OnDate(c.before[1], c.target)) = 1

\* What copySchedule makes of the source's items: as many items, none
\* completed, none with an identifier of the source; and the schedule it
\* deleted is gone from the cache.
CopyIsClean(c) ==
    /\ c.gone # NoId /\ c.gone \notin Ids(schedules)
    /\ c.made \in Ids(schedules)
    /\ \A i \in 1..Len(schedules) :
          schedules[i]._id = c.made
          => /\ Len(schedules[i].items) = Len(c.items)
             /\ \A j \in 1..Len(schedules[i].items) :
                   /\ ~schedules[i].items[j].completed
                   /\ schedules[i].items[j]._id \notin ItemIds(c.items)

\* C5: after a copySchedule over an existing schedule of the target date,
\* the cache holds exactly one schedule for the target date, the new one,
\* and the copy is clean.
C5_CopyScheduleReplaces ==
    \A p \in Slots :
       CopiedOver(calls[p])
       => /\ Cardinality(OnDate(schedules, calls[p].target)) = 1
          /\ \A i \in OnDate(schedules, calls[p].target) :
                schedules[i]._id = calls[p].made
          /\ CopyIsClean(calls[p])

\* C5 in a browser whose local time is UTC.
C5_CopyScheduleReplacesInUTC ==
    \A p \in Slots :
       (tz = 0 /\ CopiedOver(calls[p]))
       => /\ Cardinality(OnDate(schedules, calls[p].target)) = 1
          /\ \A i \in OnDate(schedules, calls[p].target) :
                schedules[i]._id = calls[p].made
          /\ CopyIsClean(calls[p])

\* The part of C5 that holds in every browser.
C5_CopyIsCleanEverywhere ==
    \A p \in Slots : CopiedOver(calls[p]) => CopyIsClean(calls[p])

\* The copyScheduleItem call c has succeeded and the cache held no schedule
\* for its target date when it was called.
CopiedToNewDate(c) ==
    /\ c.op = "copyScheduleItem" /\ Succeeded(c)
    /\ OnDate(c.before[1], c.target) = {}

\* The cache is the one before the call plus one schedule, created by the
\* call, that holds one item: the source item under a new identifier.
OneNewScheduleWithTheCopy(c) ==
    /\ c.made # NoId /\ c.made \notin Ids(c.before[1])
    /\ Len(schedules) = Len(c.before[1]) + 1
    /\ SubSeq(schedules, 1, Len(c.before[1])) = c.before[1]
    /\ LET new == schedules[Len(schedules)]
       IN /\ new._id = c.made
          /\ Len(new.items) = 1
          /\ WithoutId(new.items[1]) = WithoutId(c.items[1])
          /\ new.items[1]._id # c.items[1]._id
          /\ new.items[1]._id \notin ItemIds(AllItems(c.before[1]))

\* C6: a copyScheduleItem to a date without a schedule creates one
\* schedule, Weekend exactly when the target date is a Saturday or a
\* Sunday, holding the copy alone under a new identifier.
C6_CopyItemCreatesSchedule ==
    \A p \in Slots :
       CopiedToNewDate(calls[p])
       => /\ OneNewScheduleWithTheCopy(calls[p])
          /\ schedules[Len(schedules)].dayType =
                (IF IsWeekendDate(calls[p].target) THEN "Weekend" ELSE "Weekday")

\* C6 in a browser at or east of UTC.
C6_CopyItemCreatesScheduleEastOfUTC ==
    \A p \in Slots :
       (tz >= 0 /\ CopiedToNewDate(calls[p]))
       => /\ OneNewScheduleWithTheCopy(calls[p])
          /\ schedules[Len(schedules)].dayType =
                (IF IsWeekendDate(calls[p].target) THEN "Weekend" ELSE "Weekday")

\* The part of C6 that holds in every browser.
C6_OneNewScheduleEverywhere ==
    \A p \in Slots :
       CopiedToNewDate(calls[p]) => OneNewScheduleWithTheCopy(calls[p])

\* C7: a copySchedule that deleted the target date's schedule and then
\* failed to create the copy has raised with loading false; the deleted
\* schedule is in neither the backend nor the cache, and the cache is the
\* one before the call less that schedule.
C7_DeletionNotRolledBack ==
    \A p \in Slots :
       (calls[p].op = "copySchedule" /\ calls[p].failed /\ calls[p].gone # NoId)
       => /\ calls[p].pc = "done"
          /\ calls[p].result = "raised"
          /\ calls[p].gone \in Ids(calls[p].before[1])
          /\ calls[p].gone \notin Ids(backend)
          /\ calls[p].gone \notin Ids(schedules)
          /\ schedules = RemoveById(calls[p].before[1], calls[p].gone)
          /\ calls[p].made = NoId
          /\ loading = FALSE

\* A copySchedule lost the target date's schedule: deleted, copy not made.
C7_Witness ==
    \E p \in Slots :
       /\ calls[p].op = "copySchedule" /\ calls[p].failed
       /\ calls[p].gone # NoId /\ calls[p].reqs = 2
       /\ Len(schedules) < Len(calls[p].before[1])

\* C8: a copyScheduleItem that failed, at either request, has left the
\* schedules collection as it was when it was called.
C8_FailedCopyItemKeepsCache ==
    \A p \in Slots :
       (calls[p].op = "copyScheduleItem" /\ calls[p].failed)
       => schedules = calls[p].before[1]

\* C8 for a failure of the first request, the creation of the schedule.
C8_FailedCreationKeepsCache ==
    \A p \in Slots :
       (calls[p].op = "copyScheduleItem" /\ calls[p].failed /\ calls[p].made = NoId)
       => schedules = calls[p].before[1]

\* No two cached schedules fall on the same calendar date.
UniquePerDate(scheduleData) ==
    \A i, j \in 1..Len(scheduleData) :
       ISODate(scheduleData[i].date) = ISODate(scheduleData[j].date) => i = j

\* C9: when every copy call made so far has succeeded and none is in
\* flight, the cache holds at most one schedule per calendar date.
C9_OneSchedulePerDate ==
    (\A p \in Slots : calls[p].pc \in {"idle", "done"} /\ ~calls[p].failed)
    => UniquePerDate(schedules)

\* C9 in a browser whose local time is UTC.
C9_OneSchedulePerDateInUTC == (tz = 0) => C9_OneSchedulePerDate

\* The category requests in flight.
CategoryRequests ==
    {p \in Slots : calls[p].op = "fetchCategories" /\ calls[p].pc = "get"}

\* C10: at most one category request is in flight.
C10_OneCategoryRequest == Cardinality(CategoryRequests) <= 1

\* A fetchCategories call whose request is answered in this step.
CategoryAnswered(p) ==
    /\ calls[p].op = "fetchCategories" /\ calls[p].pc = "get"
    /\ calls'[p].pc = "done"

\* C11: when the category request fails the call returns the six default
\* names, in order, and stores them as categories; whenever a category
\* request is answered, with success or with failure, the call ends with
\* isFetchingCategories false.
C11_CategoryFallback ==
    [][\A p \in Slots :
          CategoryAnswered(p) =>
             /\ isFetchingCategories' = FALSE
             /\ calls'[p].failed =>
                   /\ calls'[p].ret = <<"DSA", "System Design", "Development",
                                        "Learning", "Problem Solving", "Other">>
                   /\ categories' = calls'[p].ret
                   /\ calls'[p].result = "returned"]_vars

\* A failed category request has ended over a list that held other names.
C11_Witness ==
    \E p \in Slots :
       /\ calls[p].op = "fetchCategories" /\ calls[p].pc = "done"
       /\ calls[p].failed
       /\ calls[p].ret = defaultCategories /\ Len(calls[p].ret) = 6
       /\ categories = defaultCategories
       /\ ~isFetchingCategories
       /\ budget < MaxOps - 1

\* C12: a call of any of the ten operations made while isAuthenticated is
\* false ends at once, has issued no request, and changes none of
\* schedules, loading, error, stats, categories and isFetchingCategories,
\* nor anything the server holds.
C12_UnauthenticatedNoOp ==
    [][\A p \in Slots :
          (~isAuthenticated /\ calls[p].pc = "idle" /\ calls'[p].pc # "idle")
          => /\ calls'[p].pc = "done"
             /\ calls'[p].result = "returned"
             /\ calls'[p].reqs = 0
             /\ schedules' = schedules /\ stats' = stats
             /\ error' = error /\ loading' = loading
             /\ categories' = categories
             /\ isFetchingCategories' = isFetchingCategories
             /\ backend' = backend]_vars

\* A signed-out user has called copySchedule over a store that holds
\* schedules and has loading = false.
C12_Witness ==
    \E p \in Slots :
       /\ ~isAuthenticated
       /\ calls[p].op = "copySchedule" /\ calls[p].pc = "done"
       /\ calls[p].reqs = 0
       /\ schedules # <<>>
       /\ ~loading

\* The request of one of the four replace-by-id operations is answered with
\* success in this step.
ReplaceAnswered(p) ==
    /\ calls[p].op \in {"updateSchedule"} \cup ItemMutations
    /\ calls[p].pc \notin {"idle", "done"}
    /\ calls'[p].pc = "done" /\ ~calls'[p].failed

\* C13: a successful updateSchedule, addScheduleItem, updateScheduleItem or
\* deleteScheduleItem puts the record the server returned in the place of
\* every cache entry that has the given schedule id and leaves the length
\* of schedules and every other entry as they were; with no entry of that
\* id the collection is unchanged.
C13_ReplaceById ==
    [][\A p \in Slots :
          ReplaceAnswered(p) =>
             LET id == calls[p].sid
                 updated == calls'[p].ret[1]
             IN /\ \E i \in 1..Len(backend') : backend'[i] = updated
                /\ updated._id = id
                /\ Len(schedules') = Len(schedules)
                /\ \A i \in 1..Len(schedules) :
                      schedules'[i] = IF schedules[i]._id = id THEN updated
                                      ELSE schedules[i]
                /\ (id \notin Ids(schedules)) => schedules' = schedules]_vars

\* A replace-by-id operation has succeeded in a cache of two schedules, the
\* second of which is the one it names and now is the returned record,
\* which differs from the first.
C13_Witness ==
    \E p \in Slots :
       /\ calls[p].op \in {"updateSchedule"} \cup ItemMutations
       /\ Succeeded(calls[p])
       /\ Len(schedules) = 2
       /\ schedules[2] = calls[p].ret[1]
       /\ schedules[1]._id # calls[p].sid

\* A replace-by-id operation has succeeded on a schedule the cache does not
\* hold.
C13_AbsentReached ==
    \E p \in Slots :
       /\ calls[p].op \in {"updateSchedule"} \cup ItemMutations
       /\ Succeeded(calls[p])
       /\ calls[p].sid \notin Ids(schedules)

\* The request of a deleteSchedule is answered with success in this step.
DeleteAnswered(p) ==
    /\ calls[p].op = "deleteSchedule" /\ calls[p].pc = "delete"
    /\ calls'[p].pc = "done" /\ ~calls'[p].failed

\* The cache without the entries of an identifier, the others in order.
Without(scheduleData, id) == SelectSeq(scheduleData, LAMBDA s : s._id # id)

\* C14: a successful deleteSchedule(id) leaves no entry with that id in
\* schedules and keeps every other entry that was in the cache, in the
\* same relative order.
C14_DeleteRemovesExactly ==
    [][\A p \in Slots :
          DeleteAnswered(p) =>
             /\ calls[p].sid \notin Ids(schedules')
             /\ schedules' = Without(schedules, calls[p].sid)]_vars

\* C14 for a deleteSchedule whose callback closed over the cache as it
\* stands when the response arrives.
C14_DeleteRemovesExactlyFromCurrent ==
    [][\A p \in Slots :
          (DeleteAnswered(p) /\ calls[p].closure = schedules) =>
             /\ calls[p].sid \notin Ids(schedules')
             /\ schedules' = Without(schedules, calls[p].sid)]_vars

\* The text a failed call leaves for the user: the failure's message, or
\* the operation's fallback when the failure carries none.
FailureText(c) == IF c.msg = "" THEN "Failed to fetch schedules" ELSE c.msg

\* C15: once the request of a schedule operation, run alone, has failed,
\* the store's error is set; after a failed fetchSchedules it is the
\* failure's message.
C15_FailureRecorded ==
    \A p \in Slots :
       (calls[p].pc = "done" /\ calls[p].failed)
       => /\ error # null
          /\ calls[p].op = "fetchSchedules" => error = FailureText(calls[p])

\* C15 for fetchSchedules alone.
C15_FetchFailureRecorded ==
    \A p \in Slots :
       (calls[p].pc = "done" /\ calls[p].failed /\ calls[p].op = "fetchSchedules")
       => error = FailureText(calls[p])

\* No step of a mutation or of a copy writes the store's error.
C15_MutationsLeaveError ==
    [][\A p \in Slots :
          (calls'[p].op \in Mutations \cup {"copyScheduleItem", "copySchedule"}
             /\ calls'[p] # calls[p])
          => error' = error]_vars

C17_OneSubmission ==
    /\ form.inFlight <= 1
    /\ (form.last.kind = "submit" /\ form.last.guarded)
       => Len(form.sent) < form.events

\* A second submit was raised while the first addSkill was in flight and
\* left at the guard.
C17_Witness ==
    /\ form.last.kind = "submit" /\ form.last.guarded
    /\ form.inFlight = 1
    /\ Len(form.sent) = 1

\* A form that handleSubmit must turn away.
InvalidForm(formData) == Trim(formData.name) = <<>> \/ formData.category = ""

\* C18: addSkill is never called with a name that is empty or only white
\* space, nor with an empty category; a handleSubmit that finds such a form
\* sets error to the message of the first failed test, calls nothing and
\* leaves isSubmitting false.
C18_InvalidFormNotSent ==
    /\ \A i \in 1..Len(form.sent) : ~InvalidForm(form.sent[i])
    /\ (form.last.kind = "submit" /\ ~form.last.guarded
          /\ InvalidForm(form.formData))
       => /\ form.error = IF Trim(form.formData.name) = <<>>
                          THEN "Skill name is required"
                          ELSE "Category is required"
          /\ form.inFlight = 0
          /\ ~form.isSubmitting

\* A form whose name is two spaces and whose category is chosen was
\* submitted and turned away.
C18_Witness ==
    /\ form.last.kind = "submit" /\ ~form.last.guarded
    /\ form.formData.name = <<" ", " ">>
    /\ form.formData.category # ""
    /\ form.error = "Skill name is required"
    /\ form.sent = <<>>

\* The last event was a change reported by the given input.
Changed(name) == form.last.kind = "change" /\ form.last.name = name

\* C19: progress is always an integer from 0 to 100; a progress change to
\* "150" leaves 100, to "-5" leaves 0, and to "abc" or to the empty text
\* leaves 0.
C19_ProgressInRange ==
    /\ form.formData.progress \in 0..100
    /\ Changed("progress") =>
          /\ form.last.value = <<"1", "5", "0">> => form.formData.progress = 100
          /\ form.last.value = <<"-", "5">> => form.formData.progress = 0
          /\ form.last.value \in {<<"a", "b", "c">>, <<>>}
                => form.formData.progress = 0
          /\ form.last.value = <<"4", "2">> => form.formData.progress = 42

\* The progress input reported "-5" when progress was 42, and progress is 0.
C19_Witness ==
    /\ Changed("progress")
    /\ form.last.value = <<"-", "5">>
    /\ form.before.progress = 42
    /\ form.formData.progress = 0

\* C20: after the status input reports "completed" the form is what it was
\* with status = completed and progress = 100; after it reports another
\* status the form is what it was with that status, progress included.
C20_CompletedForcesProgress ==
    Changed("status") =>
       IF form.last.value = "completed"
       THEN form.formData = [form.before EXCEPT !.status = "completed",
                                                !.progress = 100]
       ELSE form.formData = [form.before EXCEPT !.status = form.last.value]

\* The status input reported "completed" when progress was 42.
C20_Witness ==
    /\ Changed("status") /\ form.last.value = "completed"
    /\ form.before.progress = 42 /\ form.before.status = "upcoming"
    /\ form.formData.progress = 100 /\ form.formData.status = "completed"

\* The status input reported "in-progress" when progress was 42.
C20_OtherStatusReached ==
    /\ Changed("status") /\ form.last.value = "in-progress"
    /\ form.before.progress = 42 /\ form.formData.progress = 42

\* The places of the items of a collection: schedule k, item i.
ItemPlaces(scheduleData) ==
    {<<k, i>> \in (1..Len(scheduleData)) \X (1..(MaxStatItems + 1)) :
        i <= Len(scheduleData[k].items)}

TotalCount(scheduleData) == Cardinality(ItemPlaces(scheduleData))

CompletedCount(scheduleData) ==
    Cardinality({pl \in ItemPlaces(scheduleData) :
                    scheduleData[pl[1]].items[pl[2]].completed})

\* A fetchSchedules has handed the schedules it fetched, at least one, to
\* calculateStats.
StatsComputed ==
    \E p \in Slots :
       /\ calls[p].op = "fetchSchedules" /\ Succeeded(calls[p])
       /\ schedules # <<>>

\* C21: for a non-empty collection calculateStats sets completionRate to
\* 100 x completedCount / totalCount, and to 0 when totalCount is 0, and
\* totalTasks to totalCount. The rate is the fraction rate[1] / rate[2].
C21_CompletionRate ==
    StatsComputed =>
       LET total == TotalCount(schedules)
           completed == CompletedCount(schedules)
           rate == stats.completionRate
       IN /\ stats.totalTasks = total
          /\ rate[2] > 0
          /\ total = 0 => rate[1] = 0
          /\ total > 0 => rate[1] * total = 100 * completed * rate[2]

\* Statistics were computed over two schedules with three items, one of
\* them completed: the rate is 100/3.
C21_Witness ==
    /\ StatsComputed
    /\ Len(schedules) = 2
    /\ TotalCount(schedules) = 3 /\ CompletedCount(schedules) = 1
    /\ stats.completionRate = <<100, 3>>

\* Statistics were computed over schedules without items: the rate is 0.
C21_NoItemsReached ==
    /\ StatsComputed
    /\ TotalCount(schedules) = 0
    /\ stats.completionRate = <<0, 1>>

\* The labels of a collection, each place with its label.
Labelled(scheduleData) ==
    {pl \in ItemPlaces(scheduleData) :
        scheduleData[pl[1]].items[pl[2]].category # ""}

LabelAt(scheduleData, pl) == scheduleData[pl[1]].items[pl[2]].category

\* How many items carry the label.
LabelCount(scheduleData, label) ==
    Cardinality({pl \in Labelled(scheduleData) : LabelAt(scheduleData, pl) = label})

\* Place a comes before place b when iterating schedules in order and the
\* items of each in order.
Earlier(a, b) == a[1] < b[1] \/ (a[1] = b[1] /\ a[2] <= b[2])

\* The place where a label is first met.
FirstPlace(scheduleData, label) ==
    CHOOSE a \in Labelled(scheduleData) :
       /\ LabelAt(scheduleData, a) = label
       /\ \A b \in Labelled(scheduleData) :
             LabelAt(scheduleData, b) = label => Earlier(a, b)

\* The labels whose count is maximal.
TopLabels(scheduleData) ==
    {LabelAt(scheduleData, a) : a \in
        {pl \in Labelled(scheduleData) :
            \A b \in Labelled(scheduleData) :
               LabelCount(scheduleData, LabelAt(scheduleData, b))
                  <= LabelCount(scheduleData, LabelAt(scheduleData, pl))}}

\* topCategory and categoryCount are what the claim says they are.
TopCategoryAsStated ==
    LET labels == {LabelAt(schedules, pl) : pl \in Labelled(schedules)}
    IN /\ stats.categoryCount = Cardinality(labels)
       /\ labels = {} => stats.topCategory = ""
       /\ labels # {} =>
             /\ stats.topCategory \in TopLabels(schedules)
             /\ \A l \in TopLabels(schedules) :
                   Earlier(FirstPlace(schedules, stats.topCategory),
                           FirstPlace(schedules, l))

\* C22: topCategory is a label of maximal count and, among several of
\* them, the one met first when iterating schedules and items in order; it
\* is empty when no item has a label; categoryCount is the number of
\* distinct labels.
C22_TopCategory == StatsComputed => TopCategoryAsStated

\* C22 for collections none of whose labels spells an array index.
C22_TopCategoryOfWords ==
    (StatsComputed
       /\ \A pl \in Labelled(schedules) :
             IndexValue(LabelAt(schedules, pl)) = NotIndex)
    => TopCategoryAsStated

\* Statistics were computed over a collection in which "Dev" is met before
\* "DSA" and both label one item.
C22_TieReached ==
    /\ StatsComputed
    /\ TopLabels(schedules) = {"Dev", "DSA"}
    /\ Earlier(FirstPlace(schedules, "Dev"), FirstPlace(schedules, "DSA"))
    /\ stats.topCategory = "Dev"

\* The names of a list of {name} records.
Names(entries) == [i \in 1..Len(entries) |-> entries[i].name]

\* C23: a category request answered with a bare array of {name} or with
\* {data: array of {name}} gives the names, one answered with {categories:
\* array of string} gives the strings as they are, and any other answer
\* gives the six default names; the list the call returns is the list it
\* stores in categories.
C23_CategoryShapes ==
    [][\A p \in Slots :
          (CategoryAnswered(p) /\ ~calls'[p].failed) =>
             LET response == calls'[p].response
                 returned == calls'[p].ret
             IN /\ response.shape \in {"array", "data"}
                      => returned = Names(response.entries)
                /\ response.shape = "categories" => returned = response.entries
                /\ response.shape \notin {"array", "data", "categories"}
                      => returned = <<"DSA", "System Design", "Development",
                                      "Learning", "Problem Solving", "Other">>
                /\ categories' = returned]_vars

\* A category request was answered with {data: [{name}, {name}]} and the
\* call returned the two names and stored them.
C23_Witness ==
    \E p \in Slots :
       /\ calls[p].op = "fetchCategories" /\ calls[p].pc = "done"
       /\ calls[p].response.shape = "data"
       /\ calls[p].ret = <<"Work", "Study">>
       /\ categories = calls[p].ret

\* A category request was answered with something else and the call
\* returned the default names.
C23_OtherShapeReached ==
    \E p \in Slots :
       /\ calls[p].op = "fetchCategories" /\ calls[p].pc = "done"
       /\ calls[p].response.shape = "other"
       /\ calls[p].ret = defaultCategories

\* No call is running: each slot is free or holds a call that has finished.
AllCompleted == \A p \in Slots : calls[p].pc \in {"idle", "done"}

\* C24: when createSchedule and deleteSchedule calls overlap and all their
\* requests succeed, then once every call has completed the identifiers in
\* the cache are the identifiers the backend holds.
C24_CacheMatchesBackend ==
    AllCompleted => Ids(schedules) = Ids(backend)

\* A deleteSchedule and a createSchedule overlapped and both completed with
\* success.
C24_OverlapCompleted ==
    /\ AllCompleted
    /\ \E p, q \in Slots :
          /\ calls[p].op = "deleteSchedule" /\ Succeeded(calls[p])
          /\ calls[q].op = "createSchedule" /\ Succeeded(calls[q])

\* A request of a call of one of the three operations that raise loading
\* is in flight.
LoadingRequestInFlight ==
    \E p \in Slots :
       /\ calls[p].op \in {"fetchSchedules", "copyScheduleItem", "copySchedule"}
       /\ calls[p].pc \notin {"idle", "done"}

\* C25: whenever loading is false, no fetchSchedules, copyScheduleItem or
\* copySchedule request is in flight.
C25_LoadingCoversRequests == ~loading => ~LoadingRequestInFlight

\* The await of a handleSubmit settles in this step.
Settles == form'.inFlight = form.inFlight - 1

\* A submit event is raised in this step.
Submits == form'.events = form.events + 1 /\ form'.last.kind = "submit"

\* C26: handleSubmit calls onClose exactly when addSkill went through; when
\* addSkill throws, onClose is not called and error is the thrown message,
\* or "Failed to add skill" when there is none; either way isSubmitting is
\* false when handleSubmit has finished, and a submit raised from a render
\* of that state with a valid form calls addSkill again.
C26_CloseOnlyOnSuccess ==
    /\ [][Settles =>
             /\ (form'.closed = form.closed + 1) <=> (form'.outcome = "resolved")
             /\ form'.closed \in {form.closed, form.closed + 1}
             /\ form'.outcome = "threw" =>
                   form'.error = IF form'.thrown = "" THEN "Failed to add skill"
                                 ELSE form'.thrown
             /\ form'.outcome \in {"resolved", "threw"}
             /\ ~form'.isSubmitting]_vars
    /\ [][(/\ Submits
           /\ form.outcome # "none" /\ form.inFlight = 0
           /\ form.seen = FormRendered(form)
           /\ ~InvalidForm(form.formData)) =>
             /\ form'.sent = Append(form.sent, form.formData)
             /\ form'.inFlight = 1]_vars

\* addSkill threw without a message: the fallback text is shown, onClose
\* was not called, and a second submission has been sent.
C26_Witness ==
    /\ form.outcome = "threw" /\ form.thrown = ""
    /\ form.error = ""
    /\ form.closed = 0
    /\ Len(form.sent) = 2 /\ form.inFlight = 1

\* addSkill threw with a message, which is shown; handleSubmit has finished.
C26_MessageShown ==
    /\ form.outcome = "threw" /\ form.thrown = "Network Error"
    /\ form.error = "Network Error"
    /\ form.closed = 0 /\ ~form.isSubmitting /\ form.inFlight = 0

\* addSkill went through and onClose was called once.
C26_ClosedReached ==
    form.outcome = "resolved" /\ form.closed = 1 /\ ~form.isSubmitting

====
